---- MODULE Spec2Model ----
(***************************************************************************)
(* A model of three parts of the RenCpp binding:                           *)
(*   - the scalar Value constructors, type tests and extraction operators  *)
(*     (values.cpp: unset, none, logic, character, integer, float, date);  *)
(*   - the host-native failure classes of error.hpp (evaluation_error,     *)
(*     has_no_value, evaluation_cancelled, exit_command) and the seam at   *)
(*     which the evaluator surfaces them;                                  *)
(*   - the standard-IO device commands of rebol-stdio.cpp.                 *)
(*                                                                         *)
(* A cell's payload is the 8-byte data union of a REBVAL, kept as four     *)
(* little-endian 16-bit words <<w0, w1, w2, w3>>: the REBUNI member is w0, *)
(* the 32-bit logic member is w0,w1 and the 64-bit integer/decimal members *)
(* are all four words.                                                     *)
(***************************************************************************)
EXTENDS Integers, Sequences, FiniteSets, TLC

VARIABLES
    \* ---- value layer
    charSigned,     \* build property: plain char is a signed type
    defaultEngine,  \* the engine Engine::runFinder() finds (0: none running)
    pc,             \* position of the constructor being run
    ctor,           \* the constructor call: kind, argument, engine argument
    cell,           \* the Value's REBVAL: [type, data]
    engine,         \* the constructor's local `engine` pointer (0: nullptr)
    handle,         \* the engine handle bound by finishInit (0: unbound)
    events,         \* what the running constructor has done, in order
    res,            \* result of the last extraction operator
    tests,          \* results of the last run of the type tests
    \* ---- standard-IO device
    devFlags,       \* dev->flags of the Standard IO device
    openedNull,     \* whether the opening that made the device open was null-mode
    req,            \* the requests: [flags, modes, length, actual, error]
    osBad,          \* badbit of the host output stream
    isAvail,        \* bytes the host input stream can still deliver
    isFail,         \* failbit of the host input stream
    ret,            \* the last device command: its result and the request after it
    \* ---- error / control-signal bridge
    evalPc,         \* "idle" or "running": is the evaluator inside an evaluation
    tryDepth,       \* enclosing runtime-level recovery constructs
    cancelFlag,     \* the pending cancellation request
    sinceCheck,     \* evaluator steps since the last interruption-checked point
    lastStep,       \* the evaluator/requester step taken last
    issued,         \* the condition the evaluated code raised last
    caught,         \* the host-native failure object the host caught
    origError,      \* the host's own Error variable
    supplied,       \* the Error handed to evaluation_error's constructor
    observed        \* result of the last what() / error() / code() call

valueVars == <<charSigned, defaultEngine, pc, ctor, cell, engine, handle,
               events, res, tests>>
ioVars == <<devFlags, openedNull, req, osBad, isAvail, isFail, ret>>
bridgeVars == <<evalPc, tryDepth, cancelFlag, sinceCheck, lastStep, issued,
                caught, origError, supplied, observed>>
vars == <<valueVars, ioVars, bridgeVars>>

----------------------------------------------------------------------------
(* Bounds of the model *)

MaxInt == 2        \* int arguments -MaxInt..MaxInt, besides the edge values
MaxWide == 2       \* wchar_t arguments 0..MaxWide, besides the edge values

----------------------------------------------------------------------------
(* Fixed-width arithmetic on 16-bit words *)

WORD == 65536

\* (REBUNI)(n): conversion of an integer to the unsigned 16-bit REBUNI
ToREBUNI(n) == n % WORD

\* the two low words of a 32-bit two's complement int
LowWords(n) == <<n % WORD, (n \div WORD) % WORD>>

\* the word that sign-extends a 32-bit int to 64 bits
SignWord(n) == IF n < 0 THEN WORD - 1 ELSE 0

\* (REBINT)(x): the low 32 bits of the words read as a signed int
ToREBINT(lo, hi) ==
    IF hi >= WORD \div 2 THEN (hi - WORD) * WORD + lo ELSE hi * WORD + lo

----------------------------------------------------------------------------
(* The cell macros used by values.cpp *)

Types == {"unset", "none", "logic", "char", "integer", "decimal", "date",
          "error", "block"}

VAL_SET(c, t) == [c EXCEPT !.type = t]

SET_UNSET(c) == VAL_SET(c, "unset")

SET_NONE(c) == VAL_SET(c, "none")

\* VAL_LOGIC(v) = ((n) != 0): writes the 32-bit logic member only
SET_LOGIC(c, n) ==
    [VAL_SET(c, "logic") EXCEPT !.data = <<IF n THEN 1 ELSE 0, 0, @[3], @[4]>>]

VAL_LOGIC(c) == ToREBINT(c.data[1], c.data[2]) # 0

\* VAL_CHAR(v) = (REBUNI)(n): writes the 16-bit uchar member only
SET_CHAR(c, n) ==
    [VAL_SET(c, "char") EXCEPT !.data = <<ToREBUNI(n), @[2], @[3], @[4]>>]

VAL_CHAR(c) == c.data[1]

\* data.integer = (n): the int is sign-extended to the 64-bit member
SET_INTEGER(c, n) ==
    [VAL_SET(c, "integer") EXCEPT
        !.data = <<LowWords(n)[1], LowWords(n)[2], SignWord(n), SignWord(n)>>]

VAL_INT32_High(c) == ToREBINT(c.data[3], c.data[4])

\* (REBINT)(data.integer): the 64-bit member truncated to 32 bits
VAL_INT32(c) == ToREBINT(c.data[1], c.data[2])

SET_DECIMAL(c, d) == [VAL_SET(c, "decimal") EXCEPT !.data = d]

VAL_DECIMAL(c) == c.data

----------------------------------------------------------------------------
(* Type tests *)

isUnset(c) == c.type = "unset"

isNone(c) == c.type = "none"

isLogic(c) == c.type = "logic"

isTrue(c) == isLogic(c) /\ VAL_LOGIC(c)

isFalse_Unguarded(c) == ~VAL_LOGIC(c)

isFalse(c) == isLogic(c) /\ ~VAL_LOGIC(c)

isCharacter(c) == c.type = "char"

isInteger(c) == c.type = "integer"

isFloat(c) == c.type = "decimal"

isDate(c) == c.type = "date"

----------------------------------------------------------------------------
(* Extraction operators of the refined views.  A result is [ok, v]: ok is  *)
(* FALSE when the operator throws.                                         *)

Logic_operator_bool(c) == [ok |-> TRUE, v |-> VAL_INT32(c) # 0]

Character_operator_char_Truncating(c) == [ok |-> TRUE, v |-> VAL_CHAR(c) % 128]

Character_operator_char(c) ==
    IF VAL_CHAR(c) > 127
    THEN [ok |-> FALSE, v |-> "Non-ASCII codepoint cast to char"]
    ELSE [ok |-> TRUE, v |-> VAL_CHAR(c)]

Character_operator_wchar_t(c) == [ok |-> TRUE, v |-> VAL_CHAR(c)]

Character_codepoint(c) == [ok |-> TRUE, v |-> VAL_CHAR(c)]

Integer_operator_int(c) == [ok |-> TRUE, v |-> VAL_INT32(c)]

Float_operator_double(c) == [ok |-> TRUE, v |-> VAL_DECIMAL(c)]

----------------------------------------------------------------------------
(* Inputs of the value layer *)

\* plain char is 8 bits wide; its range depends on the build
CharInputs == IF charSigned THEN -128 .. 127 ELSE 0 .. 255

\* wchar_t arguments: small codepoints, the edges of the narrow range and of
\* the 16-bit REBUNI, and codepoints beyond the basic plane
WideInputs == (0 .. MaxWide) \cup {65, 127, 128, 255, 256, 65535, 65536, 65601, 1114111}

\* int arguments: small values and the edges of the 16- and 32-bit ranges
IntInputs == (-MaxInt .. MaxInt)
                \cup {32767, 32768, 65535, 65536, -32768, -32769, -65536,
                      2147483647, -2147483647 - 1}

\* double arguments as IEEE-754 bit patterns: 0.0, 1.0, -2.5, 0.1
DoubleInputs == {<<0, 0, 0, 0>>, <<0, 0, 0, 16368>>, <<0, 0, 0, 49156>>,
                 <<39322, 39321, 39321, 16313>>}

\* Engine* arguments: nullptr (0) or one of two engines
EngineArgs == {0, 1, 2}

\* what the memory of a cell that was not initialized can hold
GarbageWords == {0, 43981}

GarbageTypes == {"trash", "logic", "integer"}

\* payload words of values handed over by the runtime
ReceivedWords == {0, 1, 65, 127, 128, 65535}

NoRes == [op |-> "none", ok |-> TRUE, v |-> 0]

NoTests == [run |-> FALSE]

----------------------------------------------------------------------------
(* Engine resolution *)

\* Engine::runFinder(): the current/default engine
runFinder == defaultEngine

\* Engine::getHandle()
getHandle(e) == e

----------------------------------------------------------------------------
(* Value constructors.  Every scalar constructor delegates to              *)
(* Value(Dont::Initialize), tags the cell with its SET_ macro, resolves    *)
(* the engine and calls finishInit.                                        *)

\* Value (Dont::Initialize): the cell is allocated, not written
Begin(kind, arg, e) ==
    /\ pc = "none"
    /\ pc' = "allocated"
    /\ ctor' = [kind |-> kind, arg |-> arg, engine |-> e]
    /\ \E t \in GarbageTypes, g \in GarbageWords :
          cell' = [type |-> t, data |-> <<g, g, g, g>>]
    /\ engine' = e
    /\ handle' = 0
    /\ events' = <<>>
    /\ res' = NoRes
    /\ tests' = NoTests
    /\ UNCHANGED <<charSigned, defaultEngine, ioVars, bridgeVars>>

Value_unset == \E e \in EngineArgs : Begin("unset", 0, e)

Value_none == \E e \in EngineArgs : Begin("none", 0, e)

Value_bool == \E b \in BOOLEAN, e \in EngineArgs : Begin("bool", b, e)

Value_char == \E c \in CharInputs, e \in EngineArgs : Begin("char", c, e)

Value_wchar_t == \E wc \in WideInputs, e \in EngineArgs : Begin("wchar_t", wc, e)

Value_int == \E n \in IntInputs, e \in EngineArgs : Begin("int", n, e)

Value_double == \E d \in DoubleInputs, e \in EngineArgs : Begin("double", d, e)

\* the SET_ macro each constructor applies to its cell
Tagged(k, c) ==
    CASE k.kind = "unset"   -> SET_UNSET(c)
      [] k.kind = "none"    -> SET_NONE(c)
      [] k.kind = "bool"    -> SET_LOGIC(c, k.arg)
      [] k.kind = "char"    -> SET_CHAR(c, k.arg)
      [] k.kind = "wchar_t" -> SET_CHAR(c, k.arg)
      [] k.kind = "int"     -> SET_INTEGER(c, k.arg)
      [] k.kind = "double"  -> SET_DECIMAL(c, k.arg)

TagCell ==
    /\ pc = "allocated"
    /\ cell' = Tagged(ctor, cell)
    /\ events' = Append(events, "tag")
    /\ pc' = "tagged"
    /\ UNCHANGED <<charSigned, defaultEngine, ctor, engine, handle, res, tests,
                   ioVars, bridgeVars>>

ResolveEngine_AlwaysFind ==
    /\ pc = "tagged"
    /\ events' = Append(events, "finder")
    /\ engine' = runFinder
    /\ pc' = IF runFinder = 0 THEN "fatal" ELSE "resolved"
    /\ UNCHANGED <<charSigned, defaultEngine, ctor, cell, handle, res, tests,
                   ioVars, bridgeVars>>

\* if (not engine) engine = &Engine::runFinder();
\* discovery ends the process when no engine is running
ResolveEngine ==
    /\ pc = "tagged"
    /\ IF engine # 0
       THEN /\ pc' = "resolved"
            /\ UNCHANGED <<engine, events>>
       ELSE /\ events' = Append(events, "finder")
            /\ engine' = runFinder
            /\ pc' = IF runFinder = 0 THEN "fatal" ELSE "resolved"
    /\ UNCHANGED <<charSigned, defaultEngine, ctor, cell, handle, res, tests,
                   ioVars, bridgeVars>>

\* finishInit(engine->getHandle());
FinishInit ==
    /\ pc = "resolved"
    /\ handle' = getHandle(engine)
    /\ events' = Append(events, "finish")
    /\ pc' = "done"
    /\ UNCHANGED <<charSigned, defaultEngine, ctor, cell, engine, res, tests,
                   ioVars, bridgeVars>>

\* a Value the host receives from the runtime, already bound to its engine
ReceiveValue ==
    /\ pc = "none"
    /\ defaultEngine # 0
    /\ \E t \in Types, w \in ReceivedWords :
          cell' = [type |-> t, data |-> <<w, 0, 0, 0>>]
    /\ ctor' = [kind |-> "received", arg |-> 0, engine |-> 0]
    /\ engine' = defaultEngine
    /\ handle' = getHandle(defaultEngine)
    /\ events' = <<>>
    /\ pc' = "done"
    /\ res' = NoRes
    /\ tests' = NoTests
    /\ UNCHANGED <<charSigned, defaultEngine, ioVars, bridgeVars>>

\* the host lets go of the Value
Discard ==
    /\ pc = "done"
    /\ pc' = "none"
    /\ ctor' = [kind |-> "none", arg |-> 0, engine |-> 0]
    /\ cell' = [type |-> "trash", data |-> <<0, 0, 0, 0>>]
    /\ engine' = 0
    /\ handle' = 0
    /\ events' = <<>>
    /\ res' = NoRes
    /\ tests' = NoTests
    /\ UNCHANGED <<charSigned, defaultEngine, ioVars, bridgeVars>>

----------------------------------------------------------------------------
(* Calls on a constructed Value *)

Extract(op, r) ==
    /\ res' = [op |-> op, ok |-> r.ok, v |-> r.v]
    /\ UNCHANGED <<charSigned, defaultEngine, pc, ctor, cell, engine, handle,
                   events, tests, ioVars, bridgeVars>>

Call_Logic_bool ==
    pc = "done" /\ isLogic(cell) /\ Extract("bool", Logic_operator_bool(cell))

Call_Character_char ==
    pc = "done" /\ isCharacter(cell) /\ Extract("char", Character_operator_char(cell))

Call_Character_wchar_t ==
    pc = "done" /\ isCharacter(cell)
        /\ Extract("wchar_t", Character_operator_wchar_t(cell))

Call_Character_codepoint ==
    pc = "done" /\ isCharacter(cell) /\ Extract("codepoint", Character_codepoint(cell))

Call_Integer_int ==
    pc = "done" /\ isInteger(cell) /\ Extract("int", Integer_operator_int(cell))

Call_Float_double ==
    pc = "done" /\ isFloat(cell) /\ Extract("double", Float_operator_double(cell))

\* the type tests, all run on the same Value
Call_TypeTests ==
    /\ pc = "done"
    /\ tests' = [run |-> TRUE,
                 isUnset |-> isUnset(cell), isNone |-> isNone(cell),
                 isLogic |-> isLogic(cell), isTrue |-> isTrue(cell),
                 isFalse |-> isFalse(cell), isCharacter |-> isCharacter(cell),
                 isInteger |-> isInteger(cell), isFloat |-> isFloat(cell),
                 isDate |-> isDate(cell)]
    /\ UNCHANGED <<charSigned, defaultEngine, pc, ctor, cell, engine, handle,
                   events, res, ioVars, bridgeVars>>

NextValue ==
    \/ Value_unset \/ Value_none \/ Value_bool \/ Value_char \/ Value_wchar_t
    \/ Value_int \/ Value_double
    \/ TagCell \/ ResolveEngine \/ FinishInit
    \/ ReceiveValue \/ Discard
    \/ Call_Logic_bool \/ Call_Character_char \/ Call_Character_wchar_t
    \/ Call_Character_codepoint \/ Call_Integer_int \/ Call_Float_double
    \/ Call_TypeTests

----------------------------------------------------------------------------
(* The standard-IO device (rebol-stdio.cpp).  One request is modelled; the *)
(* caller clears and reuses it, as the host does with its standard-IO      *)
(* request.                                                                *)

MaxLen == 2        \* request lengths 0..MaxLen
MaxAvail == 3      \* bytes the input stream holds at the start, 0..MaxAvail

\* the generic device-error code both commands report
DEVICE_ERROR == 1020

NoRet == [cmd |-> "none", result |-> "none", null |-> FALSE, length |-> 0,
          actual |-> 0, error |-> 0, preActual |-> 0, wasOpen |-> FALSE,
          nullAfter |-> FALSE, reqOpen |-> FALSE, devKept |-> TRUE,
          nullKept |-> TRUE, touched |-> FALSE, delivered |-> 0]

ClearRequest(m) == [flags |-> {}, modes |-> m, length |-> 0, actual |-> 0,
                    error |-> 0, data0 |-> 97]

\* the record of a finished command: the result and the request as returned
Returned(cmd, result, before, after, flagsAfter, touched, delivered) ==
    [cmd |-> cmd, result |-> result, null |-> "RDM_NULL" \in before.modes,
     length |-> after.length, actual |-> after.actual, error |-> after.error,
     preActual |-> before.actual, wasOpen |-> "RDF_OPEN" \in devFlags,
     nullAfter |-> "RDM_NULL" \in after.modes,
     reqOpen |-> "RRF_OPEN" \in after.flags, devKept |-> flagsAfter = devFlags,
     nullKept |-> ("SF_DEV_NULL" \in flagsAfter) = ("SF_DEV_NULL" \in devFlags),
     touched |-> touched, delivered |-> delivered]

\* the caller clears the request and chooses its mode
Caller_NewRequest ==
    /\ \E m \in {{}, {"RDM_NULL"}} : req' = ClearRequest(m)
    /\ UNCHANGED <<devFlags, openedNull, osBad, isAvail, isFail, ret,
                   valueVars, bridgeVars>>

\* the caller sets the length of the transfer it is about to ask for
Caller_SetLength ==
    /\ \E n \in 0 .. MaxLen : n # req.length /\ req' = [req EXCEPT !.length = n]
    /\ UNCHANGED <<devFlags, openedNull, osBad, isAvail, isFail, ret,
                   valueVars, bridgeVars>>

\* CLR_FLAG(dev->flags, RDF_OPEN)
Quit_IO_Flags(f) == f \ {"RDF_OPEN"}

Quit_IO ==
    /\ devFlags' = Quit_IO_Flags(devFlags)
    /\ ret' = Returned("Quit_IO", "DR_DONE", req, req, Quit_IO_Flags(devFlags),
                       FALSE, 0)
    /\ UNCHANGED <<openedNull, req, osBad, isAvail, isFail, valueVars, bridgeVars>>

\* the request as Open_IO leaves it
Open_IO_Request(rq, f) ==
    IF "RDF_OPEN" \in f
    THEN [rq EXCEPT !.modes = IF "SF_DEV_NULL" \in f THEN @ \cup {"RDM_NULL"} ELSE @,
                    !.flags = @ \cup {"RRF_OPEN"}]
    ELSE [rq EXCEPT !.flags = @ \cup {"RRF_OPEN"}]

\* the device flags as Open_IO leaves them
Open_IO_Flags(rq, f) ==
    IF "RDF_OPEN" \in f
    THEN f
    ELSE (IF "RDM_NULL" \in rq.modes THEN f \cup {"SF_DEV_NULL"} ELSE f)
             \cup {"RDF_OPEN"}

Open_IO ==
    /\ req' = Open_IO_Request(req, devFlags)
    /\ devFlags' = Open_IO_Flags(req, devFlags)
    /\ openedNull' = IF "RDF_OPEN" \in devFlags THEN openedNull
                     ELSE "RDM_NULL" \in req.modes
    /\ ret' = Returned("Open_IO", "DR_DONE", req, req', devFlags',
                       FALSE, 0)
    /\ UNCHANGED <<osBad, isAvail, isFail, valueVars, bridgeVars>>

\* CLR_FLAG(req->flags, RRF_OPEN)
Close_IO_Request(rq) == [rq EXCEPT !.flags = @ \ {"RRF_OPEN"}]

Close_IO ==
    /\ req' = Close_IO_Request(req)
    /\ ret' = Returned("Close_IO", "DR_DONE", req, req', devFlags,
                       FALSE, 0)
    /\ UNCHANGED <<devFlags, openedNull, osBad, isAvail, isFail, valueVars,
                   bridgeVars>>

\* std::ostream::write: a stream that is already bad writes nothing and
\* stays bad; otherwise the write goes through whole or sets badbit
ostream_write(bad, fails) == bad \/ fails

Write_IO_Request_NoActual(rq, bad) ==
    IF "RDM_NULL" \in rq.modes THEN [rq EXCEPT !.actual = rq.length]
    ELSE IF bad THEN [rq EXCEPT !.error = DEVICE_ERROR]
    ELSE rq

\* the request as Write_IO leaves it; bad: !os after the write
Write_IO_Request(rq, bad) ==
    IF "RDM_NULL" \in rq.modes THEN [rq EXCEPT !.actual = rq.length]
    ELSE IF bad THEN [rq EXCEPT !.error = DEVICE_ERROR]
    ELSE [rq EXCEPT !.actual = rq.length]

Write_IO_Result(rq, bad) ==
    IF "RDM_NULL" \notin rq.modes /\ bad THEN "DR_ERROR" ELSE "DR_DONE"

Write_IO ==
    \E fails \in BOOLEAN :
        LET null == "RDM_NULL" \in req.modes
            bad == ostream_write(osBad, fails)
        IN  /\ null => ~fails
            /\ osBad' = IF null THEN osBad ELSE bad
            /\ req' = Write_IO_Request(req, bad)
            /\ ret' = Returned("Write_IO", Write_IO_Result(req, bad), req, req',
                               devFlags, ~null, 0)
            /\ UNCHANGED <<devFlags, openedNull, isAvail, isFail, valueVars,
                           bridgeVars>>

Min(a, b) == IF a < b THEN a ELSE b

\* std::istream::read(buf, n): a failed stream delivers nothing; otherwise
\* it delivers what it has, and sets eofbit|failbit when that is less than n
istream_read(avail, fail, n) ==
    IF fail THEN [gcount |-> 0, avail |-> avail, fail |-> TRUE]
    ELSE [gcount |-> Min(n, avail), avail |-> avail - Min(n, avail),
          fail |-> avail < n]

Read_IO_Request_StaleActual(rq, st) ==
    IF "RDM_NULL" \in rq.modes THEN [rq EXCEPT !.data0 = 0]
    ELSE IF st.fail
         THEN [rq EXCEPT !.error = DEVICE_ERROR,
                         !.data0 = IF st.gcount > 0 THEN 98 ELSE @]
         ELSE [rq EXCEPT !.actual = st.gcount,
                         !.data0 = IF st.gcount > 0 THEN 98 ELSE @]

\* the request as Read_IO leaves it; st: the stream's answer to the read
Read_IO_Request(rq, st) ==
    IF "RDM_NULL" \in rq.modes THEN [rq EXCEPT !.data0 = 0]
    ELSE IF st.fail
         THEN [rq EXCEPT !.actual = 0, !.error = DEVICE_ERROR,
                         !.data0 = IF st.gcount > 0 THEN 98 ELSE @]
         ELSE [rq EXCEPT !.actual = st.gcount,
                         !.data0 = IF st.gcount > 0 THEN 98 ELSE @]

Read_IO_Result(rq, st) ==
    IF "RDM_NULL" \notin rq.modes /\ st.fail THEN "DR_ERROR" ELSE "DR_DONE"

Read_IO ==
    LET null == "RDM_NULL" \in req.modes
        st == istream_read(isAvail, isFail, req.length)
    IN  /\ isAvail' = IF null THEN isAvail ELSE st.avail
        /\ isFail' = IF null THEN isFail ELSE st.fail
        /\ req' = Read_IO_Request(req, st)
        /\ ret' = Returned("Read_IO", Read_IO_Result(req, st), req, req',
                           devFlags, ~null,
                           IF null THEN 0 ELSE st.gcount)
        /\ UNCHANGED <<devFlags, openedNull, osBad, valueVars, bridgeVars>>

\* throw std::runtime_error("echo stdin and stdout to file not supported ...")
Open_Echo ==
    /\ ret' = Returned("Open_Echo", "throw", req, req, devFlags,
                       FALSE, 0)
    /\ UNCHANGED <<devFlags, openedNull, req, osBad, isAvail, isFail, valueVars,
                   bridgeVars>>

NextIO ==
    \/ Caller_NewRequest \/ Caller_SetLength
    \/ Quit_IO \/ Open_IO \/ Close_IO \/ Write_IO \/ Read_IO \/ Open_Echo

----------------------------------------------------------------------------
(* The host-native failure classes (error.hpp).  A failure object is       *)
(* [kind, payload, whatString]; payload is the sequence of its data        *)
(* members other than whatString, empty for the classes that have none.    *)
(* Strings are sequences of tokens.                                        *)

MaxCode == 11      \* exit codes -MaxCode..MaxCode
MaxTry == 2        \* nesting of runtime-level recovery constructs
MaxSteps == 2      \* evaluator steps between interruption-checked points

Messages == {"Invalid hedgehog found", "No infix bitwise OR"}

\* Error (const char * msg, Engine *): an ERROR! value
Error(msg) == [type |-> "error", msg |-> msg]

ErrorValues == {Error(m) : m \in Messages}

\* to_string(Value const &): the runtime's rendering of the value
to_string(v) == <<"** User error: ", v.msg>>

\* Value's copy constructor: a fresh cell holding the same value
CopyValue(v) == v

DigitChars == <<"0", "1", "2", "3", "4", "5", "6", "7", "8", "9">>

RECURSIVE Digits(_)
Digits(n) ==
    IF n < 10 THEN <<DigitChars[n + 1]>>
    ELSE Digits(n \div 10) \o <<DigitChars[(n % 10) + 1]>>

\* std::to_string(int)
std_to_string(n) == IF n < 0 THEN <<"-">> \o Digits(-n) ELSE Digits(n)

NoFailure == [kind |-> "none", payload |-> <<>>, whatString |-> <<>>]

evaluation_error(error) ==
    [kind |-> "evaluation_error", payload |-> <<CopyValue(error)>>,
     whatString |-> to_string(CopyValue(error))]

evaluation_error_what_Recomputed(x) == to_string(origError)

evaluation_error_what(x) == x.whatString

evaluation_error_error(x) == CopyValue(x.payload[1])

has_no_value ==
    [kind |-> "has_no_value", payload |-> <<>>,
     whatString |-> <<"ren::has_no_value">>]

evaluation_cancelled_AsNoValue == has_no_value

evaluation_cancelled ==
    [kind |-> "evaluation_cancelled", payload |-> <<>>,
     whatString |-> <<"ren::evaluation_cancelled">>]

exit_command_Unsigned(code) ==
    [kind |-> "exit_command", payload |-> <<code % 256>>,
     whatString |-> <<"ren::exit_command(">> \o std_to_string(code % 256) \o <<")">>]

exit_command(code) ==
    [kind |-> "exit_command", payload |-> <<code>>,
     whatString |-> <<"ren::exit_command(">> \o std_to_string(code) \o <<")">>]

exit_command_what(x) == x.whatString

exit_command_code(x) == x.payload[1]

----------------------------------------------------------------------------
(* The seam between the evaluator and the host.  The evaluator runs on one *)
(* thread; a second thread may post a cancellation request.                *)

NoIssue == [kind |-> "none", code |-> 0, intercepted |-> FALSE]

NoObservation == [op |-> "none", v |-> 0]

ExitCodes == -MaxCode .. MaxCode

\* the host starts an evaluation
Host_Evaluate ==
    /\ evalPc = "idle"
    /\ evalPc' = "running"
    /\ tryDepth' = 0
    /\ sinceCheck' = 0
    /\ lastStep' = "evaluate"
    /\ issued' = NoIssue
    /\ caught' = NoFailure
    /\ observed' = NoObservation
    /\ UNCHANGED <<cancelFlag, origError, supplied, valueVars, ioVars>>

\* the evaluator does work that is not an interruption-checked point
Eval_Step ==
    /\ evalPc = "running"
    /\ sinceCheck < MaxSteps
    /\ sinceCheck' = sinceCheck + 1
    /\ lastStep' = "step"
    /\ UNCHANGED <<evalPc, tryDepth, cancelFlag, issued, caught, origError,
                   supplied, observed, valueVars, ioVars>>

\* evaluated code enters a runtime-level recovery construct
Eval_EnterTry ==
    /\ evalPc = "running"
    /\ tryDepth < MaxTry
    /\ tryDepth' = tryDepth + 1
    /\ lastStep' = "try"
    /\ UNCHANGED <<evalPc, cancelFlag, sinceCheck, issued, caught, origError,
                   supplied, observed, valueVars, ioVars>>

\* the recovery construct ends without having intercepted anything
Eval_LeaveTry ==
    /\ evalPc = "running"
    /\ tryDepth > 0
    /\ tryDepth' = tryDepth - 1
    /\ lastStep' = "leave"
    /\ UNCHANGED <<evalPc, cancelFlag, sinceCheck, issued, caught, origError,
                   supplied, observed, valueVars, ioVars>>

\* evaluated code issues EXIT/QUIT with a code: the innermost recovery
\* construct intercepts it, or it surfaces to the host as exit_command
Eval_Exit ==
    /\ evalPc = "running"
    /\ \E n \in ExitCodes :
          /\ issued' = [kind |-> "exit", code |-> n, intercepted |-> tryDepth > 0]
          /\ caught' = IF tryDepth > 0 THEN caught ELSE exit_command(n)
    /\ tryDepth' = IF tryDepth > 0 THEN tryDepth - 1 ELSE 0
    /\ evalPc' = IF tryDepth > 0 THEN "running" ELSE "idle"
    /\ lastStep' = "exit"
    /\ UNCHANGED <<cancelFlag, sinceCheck, origError, supplied, observed,
                   valueVars, ioVars>>

\* evaluated code raises an error: intercepted, or surfaced to the host as
\* evaluation_error
Eval_Raise ==
    /\ evalPc = "running"
    /\ \E e \in ErrorValues :
          /\ issued' = [kind |-> "error", code |-> 0, intercepted |-> tryDepth > 0]
          /\ caught' = IF tryDepth > 0 THEN caught ELSE evaluation_error(e)
          /\ supplied' = IF tryDepth > 0 THEN supplied ELSE e
    /\ tryDepth' = IF tryDepth > 0 THEN tryDepth - 1 ELSE 0
    /\ evalPc' = IF tryDepth > 0 THEN "running" ELSE "idle"
    /\ lastStep' = "raise"
    /\ UNCHANGED <<cancelFlag, sinceCheck, origError, observed, valueVars, ioVars>>

\* the evaluator reaches an interruption-checked point
Eval_CheckPoint ==
    /\ evalPc = "running"
    /\ lastStep' = "checkpoint"
    /\ IF cancelFlag
       THEN /\ caught' = evaluation_cancelled
            /\ issued' = [kind |-> "cancel", code |-> 0, intercepted |-> FALSE]
            /\ cancelFlag' = FALSE
            /\ evalPc' = "idle"
            /\ tryDepth' = 0
            /\ UNCHANGED sinceCheck
       ELSE /\ sinceCheck' = 0
            /\ UNCHANGED <<caught, issued, cancelFlag, evalPc, tryDepth>>
    /\ UNCHANGED <<origError, supplied, observed, valueVars, ioVars>>

\* the evaluation returns normally
Eval_Finish ==
    /\ evalPc = "running"
    /\ tryDepth = 0
    /\ evalPc' = "idle"
    /\ lastStep' = "finish"
    /\ UNCHANGED <<tryDepth, cancelFlag, sinceCheck, issued, caught, origError,
                   supplied, observed, valueVars, ioVars>>

\* another thread posts a cancellation request: it sets the flag and returns
Requester_Cancel ==
    /\ cancelFlag' = TRUE
    /\ lastStep' = "request"
    /\ UNCHANGED <<evalPc, tryDepth, sinceCheck, issued, caught, origError,
                   supplied, observed, valueVars, ioVars>>

\* host code throws evaluation_error built from its own Error variable
Host_Throw_evaluation_error ==
    /\ evalPc = "idle"
    /\ caught' = evaluation_error(origError)
    /\ supplied' = origError
    /\ issued' = NoIssue
    /\ observed' = NoObservation
    /\ lastStep' = "throw"
    /\ UNCHANGED <<evalPc, tryDepth, cancelFlag, sinceCheck, origError,
                   valueVars, ioVars>>

\* host code tests a Value that has no value
Host_Throw_has_no_value ==
    /\ evalPc = "idle"
    /\ caught # has_no_value
    /\ caught' = has_no_value
    /\ issued' = NoIssue
    /\ observed' = NoObservation
    /\ lastStep' = "throw"
    /\ UNCHANGED <<evalPc, tryDepth, cancelFlag, sinceCheck, origError, supplied,
                   valueVars, ioVars>>

\* the host assigns another Error to its own variable
Host_AssignError ==
    /\ \E e \in ErrorValues : e # origError /\ origError' = e
    /\ lastStep' = "assign"
    /\ UNCHANGED <<evalPc, tryDepth, cancelFlag, sinceCheck, issued, caught,
                   supplied, observed, valueVars, ioVars>>

Observe(op, v) ==
    /\ evalPc = "idle"
    /\ observed' = [op |-> op, v |-> v]
    /\ UNCHANGED <<evalPc, tryDepth, cancelFlag, sinceCheck, lastStep, issued,
                   caught, origError, supplied, valueVars, ioVars>>

Call_evaluation_error_what ==
    caught.kind = "evaluation_error" /\ Observe("what", evaluation_error_what(caught))

Call_evaluation_error_error ==
    caught.kind = "evaluation_error" /\ Observe("error", evaluation_error_error(caught))

Call_exit_command_what ==
    caught.kind = "exit_command" /\ Observe("what", exit_command_what(caught))

Call_exit_command_code ==
    caught.kind = "exit_command" /\ Observe("code", exit_command_code(caught))

NextBridge ==
    \/ Host_Evaluate \/ Eval_Step \/ Eval_EnterTry \/ Eval_LeaveTry
    \/ Eval_Exit \/ Eval_Raise \/ Eval_CheckPoint \/ Eval_Finish
    \/ Requester_Cancel
    \/ Host_Throw_evaluation_error \/ Host_Throw_has_no_value \/ Host_AssignError
    \/ Call_evaluation_error_what \/ Call_evaluation_error_error
    \/ Call_exit_command_what \/ Call_exit_command_code

----------------------------------------------------------------------------
(* Initial states and specifications *)

InitValue ==
    /\ pc = "none"
    /\ ctor = [kind |-> "none", arg |-> 0, engine |-> 0]
    /\ cell = [type |-> "trash", data |-> <<0, 0, 0, 0>>]
    /\ engine = 0
    /\ handle = 0
    /\ events = <<>>
    /\ res = NoRes
    /\ tests = NoTests

InitIO ==
    /\ devFlags = {}
    /\ openedNull = FALSE
    /\ req = ClearRequest({})
    /\ osBad = FALSE
    /\ isFail = FALSE
    /\ ret = NoRet

InitBridge ==
    /\ evalPc = "idle"
    /\ tryDepth = 0
    /\ cancelFlag = FALSE
    /\ sinceCheck = 0
    /\ lastStep = "none"
    /\ issued = NoIssue
    /\ caught = NoFailure
    /\ origError \in ErrorValues
    /\ supplied = origError
    /\ observed = NoObservation

\* the value layer: any build, with or without a running engine
Init ==
    /\ charSigned \in BOOLEAN
    /\ defaultEngine \in {0, 1}
    /\ isAvail = 0
    /\ InitValue /\ InitIO /\ InitBridge

Spec == Init /\ [][NextValue]_vars

\* the standard-IO device, with any amount of input waiting
InitDevice ==
    /\ charSigned = TRUE
    /\ defaultEngine = 1
    /\ isAvail \in 0 .. MaxAvail
    /\ InitValue /\ InitIO /\ InitBridge

SpecIO == InitDevice /\ [][NextIO]_vars

\* the error / control-signal bridge
InitSeam ==
    /\ charSigned = TRUE
    /\ defaultEngine = 1
    /\ isAvail = 0
    /\ InitValue /\ InitIO /\ InitBridge

SpecBridge == InitSeam /\ [][NextBridge]_vars

----------------------------------------------------------------------------
(* Properties of the value layer, checked under Spec *)

\* a payload the cell and the extraction operator can both represent: a
\* char in the narrow (ASCII) range, a wchar_t within the 16-bit REBUNI
ValidPayload(k) ==
    CASE k.kind = "char"    -> k.arg \in 0 .. 127
      [] k.kind = "wchar_t" -> k.arg \in 0 .. WORD - 1
      [] OTHER              -> TRUE

\* C1: a Value built from a valid payload of kind logic, character, integer
\* or float, read back through the extraction operator of the same kind
\* (bool, char, wchar_t, int, double), yields exactly that payload.
C1_RoundTrip ==
    (res.op # "none" /\ res.op = ctor.kind /\ ValidPayload(ctor))
        => (res.ok /\ res.v = ctor.arg)

\* a logic built from true over a cell whose upper words hold garbage has
\* been read back
C1_Witness ==
    /\ res.op = "bool" /\ ctor.kind = "bool" /\ ctor.arg = TRUE
    /\ cell.data[3] # 0

\* C2: operator char throws exactly when the codepoint is above 127 and
\* otherwise returns the codepoint; and Value(char c) stores c as the
\* codepoint, so that a successful extraction returns c.
C2_CheckedNarrowing ==
    /\ res.op = "char" =>
          IF VAL_CHAR(cell) > 127 THEN ~res.ok
          ELSE res.ok /\ res.v = VAL_CHAR(cell)
    /\ (pc = "done" /\ ctor.kind = "char") =>
          /\ VAL_CHAR(cell) = ctor.arg
          /\ (res.op = "char" /\ res.ok) => res.v = ctor.arg

TestNames == {"isUnset", "isNone", "isLogic", "isCharacter", "isInteger",
              "isFloat", "isDate"}

C8_Results ==
    tests.run =>
        /\ \A n \in TestNames \cup {"isTrue", "isFalse"} : tests[n] \in BOOLEAN
        /\ Cardinality({n \in TestNames : tests[n]}) <= 1
        /\ tests.isLogic = (tests.isTrue # tests.isFalse)
        /\ ~(tests.isTrue /\ tests.isFalse)
        /\ tests.isLogic = (cell.type = "logic")
        /\ tests.isInteger = (cell.type = "integer")
        /\ tests.isDate = (cell.type = "date")

C8_Pure ==
    (tests' # tests /\ tests'.run) => (cell' = cell /\ handle' = handle /\ pc' = pc)

\* C8: the type tests never fail and leave the cell and the engine binding
\* as they were; at most one of isUnset, isNone, isLogic, isCharacter,
\* isInteger, isFloat, isDate is true; isTrue and isFalse are both false on
\* a cell that is no logic and exactly one of them is true on a logic.
C8_TypeTests == [](C8_Results) /\ [][C8_Pure]_vars

\* the tests have run on an integer whose payload is zero
C8_Witness ==
    /\ tests.run /\ tests.isInteger /\ ~tests.isFalse
    /\ cell.data[1] = 0 /\ cell.data[2] = 0

TypeOfKind(kind) ==
    CASE kind = "unset" -> "unset" [] kind = "none" -> "none"
      [] kind = "bool" -> "logic" [] kind = "char" -> "char"
      [] kind = "wchar_t" -> "char" [] kind = "int" -> "integer"
      [] kind = "double" -> "decimal"

Constructing == ctor.kind \notin {"none", "received"}

\* C9: a scalar constructor starts from the uninitialized state, tags the
\* cell first and binds the engine with finishInit afterwards, once; it
\* binds the engine it was given when it was given one, and runs engine
\* discovery exactly when it was given none; the Value it returns is tagged
\* and bound.
C9_TwoPhase ==
    /\ pc = "allocated" => (events = <<>> /\ handle = 0)
    /\ pc \in {"tagged", "resolved", "fatal"} =>
          (handle = 0 /\ events[1] = "tag" /\ cell.type = TypeOfKind(ctor.kind))
    /\ (pc \in {"resolved", "fatal", "done"} /\ Constructing) =>
          (("finder" \in {events[i] : i \in 1 .. Len(events)}) <=> ctor.engine = 0)
    /\ (pc = "done" /\ Constructing) =>
          /\ cell.type = TypeOfKind(ctor.kind)
          /\ handle # 0
          /\ IF ctor.engine # 0
             THEN events = <<"tag", "finish">> /\ handle = getHandle(ctor.engine)
             ELSE /\ events = <<"tag", "finder", "finish">>
                  /\ handle = getHandle(defaultEngine)

\* a constructor given no engine has returned a Value bound to the default one
C9_Witness ==
    pc = "done" /\ ctor.kind = "int" /\ ctor.engine = 0 /\ handle = 1
        /\ events = <<"tag", "finder", "finish">>

----------------------------------------------------------------------------
(* Properties of the standard-IO device, checked under SpecIO *)

\* C6: on a request in null mode Write_IO returns DR_DONE with actual =
\* length and Read_IO returns DR_DONE with actual = 0, whatever actual held
\* before; neither touches the host stream.
C6_NullDevice ==
    ret.null =>
        /\ ret.cmd = "Write_IO" =>
              (ret.result = "DR_DONE" /\ ret.actual = ret.length /\ ~ret.touched)
        /\ ret.cmd = "Read_IO" =>
              (ret.result = "DR_DONE" /\ ret.actual = 0 /\ ~ret.touched)

\* C7: on a request not in null mode Write_IO ends DR_DONE with actual =
\* length or DR_ERROR with error 1020; Read_IO ends DR_DONE with actual =
\* the bytes delivered, at most length, or DR_ERROR with error 1020 and
\* actual = 0; the request never carries another error code.
C7_Outcomes ==
    /\ (~ret.null /\ ret.cmd = "Write_IO") =>
          \/ ret.result = "DR_DONE" /\ ret.actual = ret.length
          \/ ret.result = "DR_ERROR" /\ ret.error = 1020
    /\ (~ret.null /\ ret.cmd = "Read_IO") =>
          \/ /\ ret.result = "DR_DONE"
             /\ ret.actual = ret.delivered
             /\ 0 <= ret.actual /\ ret.actual <= ret.length
          \/ ret.result = "DR_ERROR" /\ ret.error = 1020 /\ ret.actual = 0
    /\ req.error \in {0, 1020}
    /\ ret.error \in {0, 1020}

\* a read failed on a request that still carried the count of an earlier
\* transfer
C7_Witness ==
    ~ret.null /\ ret.cmd = "Read_IO" /\ ret.result = "DR_ERROR"
        /\ ret.preActual > 0 /\ ret.delivered > 0

\* C10: Open_IO on a device that is already open marks the request open,
\* leaves the device flags alone and puts the request in null mode exactly
\* when the opening that made the device open was a null-mode one; Close_IO
\* clears the request's RRF_OPEN and leaves the device flags alone.
C10_NullInherited ==
    /\ (ret.cmd = "Open_IO" /\ ret.wasOpen) =>
          /\ ret.reqOpen /\ ret.devKept
          /\ ret.nullAfter = (openedNull \/ ret.null)
    /\ ret.cmd = "Close_IO" => (~ret.reqOpen /\ ret.devKept /\ ret.nullKept)

----------------------------------------------------------------------------
(* Properties of the error / control-signal bridge, checked under          *)
(* SpecBridge                                                              *)

\* C3: an evaluation_error holds a copy of the Error it was built from and
\* the description rendered from it at construction; what() and error()
\* return these whatever has since become of the original Error.
C3_Immutable ==
    caught.kind = "evaluation_error" =>
        /\ caught.payload = <<supplied>>
        /\ caught.whatString = to_string(supplied)
        /\ observed.op = "what" => observed.v = to_string(supplied)
        /\ observed.op = "error" => observed.v = supplied

\* what() was called after the host gave its Error variable another value
C3_Witness ==
    caught.kind = "evaluation_error" /\ observed.op = "what"
        /\ origError # supplied

DigitValue(ch) == (CHOOSE i \in 1 .. 10 : DigitChars[i] = ch) - 1

RECURSIVE ParseDigits(_)
ParseDigits(ds) ==
    IF Len(ds) = 1 THEN DigitValue(ds[1])
    ELSE 10 * ParseDigits(SubSeq(ds, 1, Len(ds) - 1)) + DigitValue(ds[Len(ds)])

\* the text is the decimal numeral of n, as C writes it
IsNumeral(ds, n) ==
    /\ Len(ds) >= 1
    /\ LET neg == ds[1] = "-"
           body == IF neg THEN Tail(ds) ELSE ds
       IN  /\ Len(body) >= 1
           /\ \A i \in 1 .. Len(body) : \E j \in 1 .. 10 : DigitChars[j] = body[i]
           /\ Len(body) > 1 => body[1] # "0"
           /\ neg => n < 0
           /\ (IF neg THEN -ParseDigits(body) ELSE ParseDigits(body)) = n

NamesExit(w, n) ==
    /\ Len(w) >= 3
    /\ w[1] = "ren::exit_command("
    /\ w[Len(w)] = ")"
    /\ IsNumeral(SubSeq(w, 2, Len(w) - 1), n)

\* C4: an exit directive with code n that no recovery construct intercepts
\* reaches the host as an exit_command, of no other kind, whose code() is n
\* and whose what() is "ren::exit_command(n)".
C4_ExitSurfaces ==
    (issued.kind = "exit" /\ ~issued.intercepted) =>
        /\ evalPc = "idle"
        /\ caught.kind = "exit_command"
        /\ exit_command_code(caught) = issued.code
        /\ NamesExit(exit_command_what(caught), issued.code)
        /\ observed.op = "code" => observed.v = issued.code
        /\ observed.op = "what" => NamesExit(observed.v, issued.code)

\* code() was called on the failure an exit with a negative code surfaced as
C4_Witness ==
    issued.kind = "exit" /\ ~issued.intercepted /\ issued.code = -MaxCode
        /\ observed.op = "code"

FailureKinds == {"none", "evaluation_error", "has_no_value",
                 "evaluation_cancelled", "exit_command"}

C5_Defined ==
    /\ ENABLED Requester_Cancel
    /\ caught.kind \in FailureKinds
    /\ evalPc \in {"idle", "running"}
    /\ evalPc = "running" => caught = NoFailure

C5_Step ==
    /\ (caught' # caught /\ caught'.kind = "evaluation_cancelled") =>
          (lastStep' = "checkpoint" /\ cancelFlag /\ evalPc = "running")
    /\ (evalPc = "running" /\ cancelFlag /\ lastStep' = "checkpoint") =>
          /\ caught'.kind = "evaluation_cancelled"
          /\ caught'.payload = <<>>
          /\ evalPc' = "idle"
    /\ (evalPc = "running" /\ cancelFlag /\ lastStep' \in {"step", "try", "leave"}) =>
          (evalPc' = "running" /\ caught' = caught /\ cancelFlag')

\* C5: the requester can always post its request; the evaluating thread
\* sees a pending request at an interruption-checked point and at no other
\* step, and the first such point it reaches ends the evaluation with the
\* payload-less evaluation_cancelled and no other failure; every state
\* reached is a defined one.
C5_Cancellation == [](C5_Defined) /\ [][C5_Step]_vars

\* a request posted after the evaluator had stepped has ended the evaluation
\* at a checkpoint
C5_Witness ==
    caught.kind = "evaluation_cancelled" /\ lastStep = "checkpoint"
        /\ evalPc = "idle" /\ sinceCheck > 0

====
